---- MODULE Spec2Model ----
(***************************************************************************)
(* Model of the Gemini Vision Chat client: the exchange adapter            *)
(* (services/geminiService.ts), the conversation store                     *)
(* (components/ChatInterface.tsx) and the camera capture component         *)
(* (components/CameraCapture.tsx).                                         *)
(*                                                                         *)
(* Encoding of JavaScript values.                                          *)
(*  - A string is a sequence of tokens; the empty string is << >>.  The    *)
(*    tokens of user input are single characters; a fixed literal of the   *)
(*    code is one token.                                                   *)
(*  - An optional value (a field that may be undefined/null) is a sequence *)
(*    of length 0 (None) or 1 (Some(v)).                                   *)
(***************************************************************************)
EXTENDS Naturals, Sequences, FiniteSets

\* ------------------------------------------------------------------ bounds
MaxInputLen == 1
MaxExchanges == 2
MaxStreams == 1
MaxHistory == 2
MaxChunks == 3

\* ------------------------------------------------------- optional values
None == << >>

Some(v) == << v >>

IsSome(o) == Len(o) = 1

Get(o) == o[1]

\* JavaScript truthiness of an optional string: undefined and "" are falsy.
Truthy(o) == IsSome(o) /\ Get(o) /= << >>

Last(s) == s[Len(s)]

SeqsUpTo(S, n) == UNION { [1..k -> S] : k \in 0..n }

\* ------------------------------------------------------------- types.ts
TextPart(t) == [text |-> Some(t), inlineData |-> None]

InlinePart(d) == [text |-> None, inlineData |-> Some(d)]

EmptyPart == [text |-> None, inlineData |-> None]

ChatMessage(r, ps, gs) == [role |-> r, parts |-> ps, groundingSources |-> gs]

GroundingSource(u, t) == [uri |-> u, title |-> t]

\* --------------------------------------------------- geminiService.ts
fileToGenerativePart(image) ==
    InlinePart([data |-> image.base64, mimeType |-> image.mimeType])

\* userParts: the text part is always present, the image part only if given.
userParts(message, image) ==
    << TextPart(message) >>
        \o (IF IsSome(image) THEN << fileToGenerativePart(Get(image)) >> ELSE << >>)

\* msg.parts.map(part => ...): text wins when truthy, then inlineData, else {}.
mapPart(part) ==
    IF Truthy(part.text) THEN TextPart(Get(part.text))
    ELSE IF IsSome(part.inlineData) THEN InlinePart(Get(part.inlineData))
    ELSE EmptyPart

mapMessage(msg) ==
    [role |-> msg.role, parts |-> [i \in 1..Len(msg.parts) |-> mapPart(msg.parts[i])]]

contentsMutantNewFirst(history, message, image) ==
    << [role |-> "user", parts |-> userParts(message, image)] >>
        \o [i \in 1..Len(history) |-> mapMessage(history[i])]

contents(history, message, image) ==
    [i \in 1..Len(history) |-> mapMessage(history[i])]
        \o << [role |-> "user", parts |-> userParts(message, image)] >>

\* chunk.web && chunk.web.uri && chunk.web.title
chunkFilterMutantUriOnly(chunk) ==
    IsSome(chunk.web) /\ Truthy(Get(chunk.web).uri)

chunkFilter(chunk) ==
    IsSome(chunk.web) /\ Truthy(Get(chunk.web).uri) /\ Truthy(Get(chunk.web).title)

\* ({ uri: chunk.web.uri, title: chunk.web.title }): the fields are copied as
\* they are, so a source holds optional strings.
chunkToSource(chunk) ==
    GroundingSource(Get(chunk.web).uri, Get(chunk.web).title)

\* groundingChunks ? groundingChunks.filter(...).map(...) : []
groundingSources(groundingChunks) ==
    IF IsSome(groundingChunks)
    THEN LET kept == SelectSeq(Get(groundingChunks), chunkFilter)
         IN  [i \in 1..Len(kept) |-> chunkToSource(kept[i])]
    ELSE << >>

\* Map.prototype.set on an insertion-ordered map, kept as a sequence of
\* entries: an existing key keeps its position and takes the new value, a
\* new key is appended.
MapSetMutantKeepFirst(m, k, v) ==
    IF \E i \in 1..Len(m) : m[i].key = k
    THEN m
    ELSE Append(m, [key |-> k, value |-> v])

MapSetMutantPrepend(m, k, v) ==
    IF \E i \in 1..Len(m) : m[i].key = k
    THEN [i \in 1..Len(m) |-> IF m[i].key = k THEN [key |-> k, value |-> v] ELSE m[i]]
    ELSE << [key |-> k, value |-> v] >> \o m

MapSet(m, k, v) ==
    IF \E i \in 1..Len(m) : m[i].key = k
    THEN [i \in 1..Len(m) |-> IF m[i].key = k THEN [key |-> k, value |-> v] ELSE m[i]]
    ELSE Append(m, [key |-> k, value |-> v])

\* new Map(entries): the entries are set one after the other.
RECURSIVE NewMapFrom(_, _)
NewMapFrom(m, entries) ==
    IF entries = << >> THEN m
    ELSE NewMapFrom(MapSet(m, Head(entries).key, Head(entries).value), Tail(entries))

NewMap(entries) == NewMapFrom(<< >>, entries)

MapValues(m) == [i \in 1..Len(m) |-> m[i].value]

\* Array.from(new Map(groundingSources.map(item => [item.uri, item])).values())
uniqueSources(gs) ==
    MapValues(NewMap([i \in 1..Len(gs) |-> [key |-> gs[i].uri, value |-> gs[i]]]))


\* ------------------------------------------ provider call and its outcome
\* What ai.models.generateContent can do: reject with a thrown value, or
\* resolve with a response (text, optional groundingChunks).  A malformed
\* response carries groundingChunks that is not an array.
Thrown(isErr, msg) == [isError |-> isErr, message |-> msg]

NoThrown == Thrown(FALSE, << >>)

Rejects(t) ==
    [kind |-> "reject", text |-> None, groundingChunks |-> None,
     chunksIsArray |-> TRUE, thrown |-> t]

Resolves(t, gc, isArr) ==
    [kind |-> "resolve", text |-> t, groundingChunks |-> gc,
     chunksIsArray |-> isArr, thrown |-> NoThrown]

\* groundingChunks.filter is not a function
FilterTypeError == Thrown(TRUE, << "groundingChunks.filter is not a function" >>)

UnknownErrorMessage == << "An unknown error occurred." >>

SuccessResult(t, srcs) == [error |-> None, text |-> t, sources |-> Some(srcs)]

ErrorResult(msg) == [error |-> Some(msg), text |-> None, sources |-> None]

NoResult == [error |-> None, text |-> None, sources |-> None]

Returns(r) == [type |-> "return", value |-> r, thrown |-> NoThrown]

Throws(t) == [type |-> "throw", value |-> NoResult, thrown |-> t]

\* The try block after the await: response.text, the citation pipeline, return.
tryBlock(outcome) ==
    IF outcome.kind = "reject" THEN Throws(outcome.thrown)
    ELSE IF IsSome(outcome.groundingChunks) /\ ~outcome.chunksIsArray
         THEN Throws(FilterTypeError)
    ELSE Returns(SuccessResult(outcome.text,
                               uniqueSources(groundingSources(outcome.groundingChunks))))

catchBlockMutantRethrow(t) ==
    IF t.isError THEN Returns(ErrorResult(t.message)) ELSE Throws(t)

\* catch (error): error.message for an Error, the fixed fallback otherwise.
catchBlock(t) ==
    IF t.isError THEN Returns(ErrorResult(t.message))
    ELSE Returns(ErrorResult(UnknownErrorMessage))

\* How the promise of sendMessageToGemini settles for a provider outcome.
sendMessageToGemini(outcome) ==
    LET b == tryBlock(outcome)
    IN  IF b.type = "throw" THEN catchBlock(b.thrown) ELSE b

\* ------------------------------------------------------ ChatInterface.tsx
Whitespace == {" ", "\n", "\t"}

RECURSIVE TrimStart(_)
TrimStart(s) ==
    IF s /= << >> /\ Head(s) \in Whitespace THEN TrimStart(Tail(s)) ELSE s

RECURSIVE TrimEnd(_)
TrimEnd(s) ==
    IF s /= << >> /\ Last(s) \in Whitespace THEN TrimEnd(SubSeq(s, 1, Len(s) - 1)) ELSE s

\* String.prototype.trim
Trim(s) == TrimEnd(TrimStart(s))

ErrorPrefix == << "Sorry, something went wrong: " >>

VARIABLES
    messages,      \* useState<ChatMessage[]>([])
    input,         \* useState('')
    isLoading,     \* useState(false)
    error,         \* useState<string | null>(null)
    isCameraOpen,  \* useState(false)
    imageToSend,   \* useState<{base64, mimeType} | null>(null)
    pending,       \* provider calls in flight: the contents of each request
    netCalls,      \* number of provider calls issued so far
    lastEvent,     \* the kind of the last event handled
    lastResult,    \* the result the last settled exchange resolved to
    stream,        \* CameraCapture: useState<MediaStream | null>(null)
    cameraError,   \* CameraCapture: useState<string | null>(null)
    gumPending,    \* getUserMedia calls not yet settled (by stream id)
    gumMounted,    \* those of them issued by the mounted CameraCapture
    liveStreams,   \* acquired streams whose tracks have not been stopped
    nextStream,    \* id of the next stream getUserMedia hands out
    aHistory, aMessage, aImage,   \* adapter called on its own: the arguments
    aPc,           \* "start", "awaiting", "done"
    aContents,     \* the request it assembled
    aOutcome,      \* what the provider did
    aCompletion    \* how the adapter's promise settled

chatVars == << messages, input, isLoading, error, imageToSend, pending, netCalls,
               lastResult >>

cameraVars == << stream, cameraError, gumPending, gumMounted, liveStreams, nextStream >>

adapterVars == << aHistory, aMessage, aImage, aPc, aContents, aOutcome, aCompletion >>

vars == << chatVars, isCameraOpen, lastEvent, cameraVars, adapterVars >>


\* ------------------------------------------------ inputs of the chat model
InputChars == {" ", "h"}

InputStrings == SeqsUpTo(InputChars, MaxInputLen)

\* canvas.toDataURL('image/jpeg', 0.9), then the part after the comma.
CapturedImage == [base64 |-> << "frame" >>, mimeType |-> << "image/jpeg" >>]

WebChunk(u, t) == [web |-> Some([uri |-> u, title |-> t])]

BareChunk == [web |-> None]

\* Provider outcomes the chat model draws from.
ChatOutcomes ==
    { Resolves(Some(<< "answer" >>),
               Some(<< WebChunk(Some(<< "a" >>), Some(<< "A" >>)),
                       WebChunk(Some(<< "a" >>), Some(<< "B" >>)) >>), TRUE),
      Rejects(Thrown(TRUE, << "network down" >>)),
      Rejects(Thrown(TRUE, << >>)),
      Rejects(Thrown(FALSE, << >>)) }

\* ------------------------------------------------------- ChatInterface.tsx
\* handleSendMessage, line 69: if (!trimmedInput && !imageToSend) return;
emptySubmissionMutantNoTrim(inputStr, image) == inputStr = << >> /\ ~IsSome(image)

emptySubmission(inputStr, image) == Trim(inputStr) = << >> /\ ~IsSome(image)

\* The send button: disabled={(!input.trim() && !imageToSend) || isLoading}
sendDisabledMutantNoLoading(inputStr, image, loading) ==
    Trim(inputStr) = << >> /\ ~IsSome(image)

sendDisabled(inputStr, image, loading) ==
    (Trim(inputStr) = << >> /\ ~IsSome(image)) \/ loading

\* The textarea: disabled={isLoading}
textareaDisabledMutantNever(loading) == FALSE

textareaDisabled(loading) == loading

\* userMessage: the text part if trimmedInput is non-empty, then the image part.
userMessage(trimmedInput, image) ==
    ChatMessage("user",
        (IF trimmedInput /= << >> THEN << TextPart(trimmedInput) >> ELSE << >>)
            \o (IF IsSome(image)
                THEN << InlinePart([data |-> Get(image).base64,
                                    mimeType |-> Get(image).mimeType]) >>
                ELSE << >>),
        None)

errorMessage(e) == ChatMessage("model", << TextPart(ErrorPrefix \o e) >>, None)

modelMessage(result) ==
    ChatMessage("model", << [text |-> result.text, inlineData |-> None] >>, result.sources)

\* An attempt that reaches no handler, or a handler that returns at its guard.
Ignored ==
    /\ lastEvent' = "sendIgnored"
    /\ UNCHANGED << chatVars, isCameraOpen, cameraVars, adapterVars >>

\* handleSendMessage up to its await: the guard, the optimistic append, the
\* request assembled from the rendered history, the provider call issued.
handleSendMessage ==
    IF emptySubmission(input, imageToSend)
    THEN Ignored
    ELSE /\ netCalls < MaxExchanges
         /\ error' = None
         /\ isLoading' = TRUE
         /\ messages' = Append(messages, userMessage(Trim(input), imageToSend))
         /\ input' = << >>
         /\ imageToSend' = None
         /\ pending' = Append(pending, contents(messages, Trim(input), imageToSend))
         /\ netCalls' = netCalls + 1
         /\ lastEvent' = "send"
         /\ UNCHANGED << lastResult, isCameraOpen, cameraVars, adapterVars >>

\* A click on the send button: a disabled button dispatches nothing.
ClickSend ==
    IF sendDisabled(input, imageToSend, isLoading) THEN Ignored ELSE handleSendMessage

\* Enter (without shift) in the textarea: a disabled textarea gets no key event.
PressEnter ==
    IF textareaDisabled(isLoading) THEN Ignored ELSE handleSendMessage

\* onChange of the textarea.
TypeInput(s) ==
    /\ ~textareaDisabled(isLoading)
    /\ input' = s
    /\ lastEvent' = "other"
    /\ UNCHANGED << messages, isLoading, error, imageToSend, pending, netCalls,
                    lastResult, isCameraOpen, cameraVars, adapterVars >>

\* The close button on the image preview.
RemoveImage ==
    /\ IsSome(imageToSend)
    /\ imageToSend' = None
    /\ lastEvent' = "other"
    /\ UNCHANGED << messages, input, isLoading, error, pending, netCalls,
                    lastResult, isCameraOpen, cameraVars, adapterVars >>

RemoveAt(s, i) == SubSeq(s, 1, i - 1) \o SubSeq(s, i + 1, Len(s))

\* The provider call settles and handleSendMessage resumes after its await.
ExchangeSettles(i, outcome) ==
    LET c == sendMessageToGemini(outcome)
        result == c.value
    IN  /\ i \in 1..Len(pending)
        /\ pending' = RemoveAt(pending, i)
        /\ lastEvent' = "settle"
        /\ IF c.type = "throw"
           THEN UNCHANGED << messages, isLoading, error, lastResult >>
           ELSE /\ lastResult' = Some(result)
                /\ IF Truthy(result.error)
                   THEN /\ error' = result.error
                        /\ messages' = Append(messages, errorMessage(Get(result.error)))
                   ELSE /\ error' = error
                        /\ messages' = Append(messages, modelMessage(result))
                /\ isLoading' = FALSE
        /\ UNCHANGED << input, imageToSend, netCalls, isCameraOpen, cameraVars,
                        adapterVars >>

\* ------------------------------------------------------- CameraCapture.tsx
\* The camera button: setIsCameraOpen(true) mounts a fresh CameraCapture.
OpenCamera ==
    /\ ~isCameraOpen
    /\ isCameraOpen' = TRUE
    /\ stream' = None
    /\ cameraError' = None
    /\ lastEvent' = "other"
    /\ UNCHANGED << chatVars, gumPending, gumMounted, liveStreams, nextStream,
                    adapterVars >>

\* startCamera up to its await; the button is rendered while !stream.
StartCamera ==
    /\ isCameraOpen
    /\ ~IsSome(stream)
    /\ nextStream <= MaxStreams
    /\ cameraError' = None
    /\ gumPending' = gumPending \cup {nextStream}
    /\ gumMounted' = gumMounted \cup {nextStream}
    /\ nextStream' = nextStream + 1
    /\ lastEvent' = "other"
    /\ UNCHANGED << chatVars, isCameraOpen, stream, liveStreams, adapterVars >>

\* getUserMedia resolves: the stream is live; setStream reaches only the
\* component instance that asked for it, if it is still mounted.
CameraGranted(id) ==
    /\ id \in gumPending
    /\ gumPending' = gumPending \ {id}
    /\ gumMounted' = gumMounted \ {id}
    /\ liveStreams' = liveStreams \cup {id}
    /\ stream' = IF id \in gumMounted THEN Some(id) ELSE stream
    /\ lastEvent' = "other"
    /\ UNCHANGED << chatVars, isCameraOpen, cameraError, nextStream, adapterVars >>

CameraAccessError == << "Could not access the camera. Please ensure permissions are granted." >>

\* getUserMedia rejects: the catch of startCamera.
CameraDenied(id) ==
    /\ id \in gumPending
    /\ gumPending' = gumPending \ {id}
    /\ gumMounted' = gumMounted \ {id}
    /\ cameraError' = IF id \in gumMounted THEN Some(CameraAccessError) ELSE cameraError
    /\ stream' = IF id \in gumMounted THEN None ELSE stream
    /\ lastEvent' = "other"
    /\ UNCHANGED << chatVars, isCameraOpen, liveStreams, nextStream, adapterVars >>

\* stopCamera: stops the tracks of the stream held in state, if any.
stopCamera(live) == IF IsSome(stream) THEN live \ {Get(stream)} ELSE live

\* capturePhoto (button rendered while stream): onCapture, i.e.
\* handlePhotoCapture, then stopCamera, then onClose.
CapturePhoto ==
    /\ isCameraOpen
    /\ IsSome(stream)
    /\ imageToSend' = Some(CapturedImage)
    /\ liveStreams' = stopCamera(liveStreams)
    /\ stream' = None
    /\ isCameraOpen' = FALSE
    /\ gumMounted' = {}
    /\ lastEvent' = "other"
    /\ cameraError' = None
    /\ UNCHANGED << messages, input, isLoading, error, pending, netCalls, lastResult,
                    gumPending, nextStream, adapterVars >>

\* The back button: onClick={onClose}; the component unmounts.
CloseCamera ==
    /\ isCameraOpen
    /\ isCameraOpen' = FALSE
    /\ stream' = None
    /\ gumMounted' = {}
    /\ lastEvent' = "other"
    /\ cameraError' = None
    /\ UNCHANGED << chatVars, gumPending, liveStreams, nextStream, adapterVars >>


\* ------------------------------------- the adapter called on its own inputs
Hi == << "h", "i" >>

HistoryMessages ==
    { userMessage(Hi, None),
      userMessage(<< >>, Some(CapturedImage)),
      userMessage(Hi, Some(CapturedImage)),
      modelMessage(SuccessResult(Some(<< "answer" >>),
                                 << GroundingSource(Some(<< "a" >>), Some(<< "A" >>)) >>)),
      modelMessage(SuccessResult(None, << >>)) }

ChunkValues ==
    { BareChunk,
      WebChunk(Some(<< "a" >>), Some(<< "A" >>)),
      WebChunk(Some(<< "a" >>), Some(<< "B" >>)),
      WebChunk(Some(<< "b" >>), Some(<< "A" >>)),
      WebChunk(None, Some(<< "B" >>)),
      WebChunk(Some(<< "a" >>), None),
      WebChunk(Some(<< >>), Some(<< "A" >>)),
      WebChunk(Some(<< "b" >>), Some(<< >>)) }

AdapterOutcomes ==
    { Resolves(Some(<< "answer" >>), Some(cs), TRUE) : cs \in SeqsUpTo(ChunkValues, MaxChunks) }
    \cup { Resolves(Some(<< "answer" >>), None, TRUE),
           Resolves(None, None, TRUE),
           Resolves(Some(<< "answer" >>), Some(<< >>), FALSE) }
    \cup ChatOutcomes

RequestHistories == SeqsUpTo(HistoryMessages, MaxHistory)

\* sendMessageToGemini up to its await: the request is assembled and sent.
AdapterCall ==
    /\ aPc = "start"
    /\ aContents' = Some(contents(aHistory, aMessage, aImage))
    /\ aPc' = "awaiting"
    /\ UNCHANGED << aHistory, aMessage, aImage, aOutcome, aCompletion,
                    chatVars, isCameraOpen, lastEvent, cameraVars >>

\* The provider call settles and the adapter's promise with it.
AdapterSettles(outcome) ==
    /\ aPc = "awaiting"
    /\ aOutcome' = Some(outcome)
    /\ aCompletion' = Some(sendMessageToGemini(outcome))
    /\ aPc' = "done"
    /\ UNCHANGED << aHistory, aMessage, aImage, aContents,
                    chatVars, isCameraOpen, lastEvent, cameraVars >>

\* ---------------------------------------------------------- specifications
InitChat ==
    /\ messages = << >>
    /\ input = << >>
    /\ isLoading = FALSE
    /\ error = None
    /\ isCameraOpen = FALSE
    /\ imageToSend = None
    /\ pending = << >>
    /\ netCalls = 0
    /\ lastEvent = "other"
    /\ lastResult = None
    /\ stream = None
    /\ cameraError = None
    /\ gumPending = {}
    /\ gumMounted = {}
    /\ liveStreams = {}
    /\ nextStream = 1

AdapterOff ==
    /\ aHistory = << >>
    /\ aMessage = << >>
    /\ aImage = None
    /\ aPc = "off"
    /\ aContents = None
    /\ aOutcome = None
    /\ aCompletion = None

\* Request assembly: every history up to MaxHistory messages; the caller
\* passes a non-empty text or an image (handleSendMessage, line 69).
InitRequest ==
    /\ InitChat
    /\ aHistory \in RequestHistories
    /\ aMessage \in {<< >>, Hi}
    /\ aImage \in {None, Some(CapturedImage)}
    /\ aMessage /= << >> \/ IsSome(aImage)
    /\ aPc = "start"
    /\ aContents = None
    /\ aOutcome = None
    /\ aCompletion = None

\* Response handling: the first exchange of a chat, text "hi", no image.
InitResponse ==
    /\ InitChat
    /\ aHistory = << >>
    /\ aMessage = Hi
    /\ aImage = None
    /\ aPc = "start"
    /\ aContents = None
    /\ aOutcome = None
    /\ aCompletion = None

Init == InitChat /\ AdapterOff

Next ==
    \/ ClickSend
    \/ PressEnter
    \/ \E s \in InputStrings : TypeInput(s)
    \/ RemoveImage
    \/ \E i \in 1..Len(pending), outcome \in ChatOutcomes : ExchangeSettles(i, outcome)
    \/ OpenCamera
    \/ StartCamera
    \/ \E id \in gumPending : CameraGranted(id)
    \/ \E id \in gumPending : CameraDenied(id)
    \/ CapturePhoto
    \/ CloseCamera

Spec == Init /\ [][Next]_vars

NextRequest ==
    \/ AdapterCall
    \/ \E outcome \in ChatOutcomes : AdapterSettles(outcome)

SpecRequest == InitRequest /\ [][NextRequest]_vars

NextResponse ==
    \/ AdapterCall
    \/ \E outcome \in AdapterOutcomes : AdapterSettles(outcome)

SpecResponse == InitResponse /\ [][NextResponse]_vars



\* ==================================================================== claims

\* C1: at most one exchange is in flight; while one is, no step issues a
\* provider call or adds an exchange, and the history grows only by the
\* settling of the exchange in flight.
C1_SingleFlight ==
    /\ [](Len(pending) <= 1 /\ (isLoading <=> pending /= << >>))
    /\ [][pending /= << >> =>
            /\ netCalls' = netCalls
            /\ Len(pending') <= Len(pending)
            /\ (messages' /= messages => Len(pending') < Len(pending))]_vars

\* A submission attempt was ignored while an exchange is in flight and a
\* captured photo is waiting to be sent.
C1_Witness ==
    /\ isLoading
    /\ pending /= << >>
    /\ IsSome(imageToSend)
    /\ lastEvent = "sendIgnored"

\* C2: once the capture UI is closed, no acquired stream is live.
C2_StreamsReleased == ~isCameraOpen => liveStreams = {}


\* ------------------------------------------- vocabulary of the adapter claims
\* The adapter's promise has settled.
Settled == aPc = "done"

\* It settled with a success result {text, sources}.
Succeeded ==
    /\ Settled
    /\ Get(aCompletion).type = "return"
    /\ IsSome(Get(aCompletion).value.sources)

ReturnedSources == Get(Get(aCompletion).value.sources)

\* The citations the provider returned (none when there is no list).
Citations ==
    IF IsSome(Get(aOutcome).groundingChunks) THEN Get(Get(aOutcome).groundingChunks)
    ELSE << >>

\* A citation with a non-empty URI and a non-empty title.
HasUriAndTitle(c) ==
    /\ IsSome(c.web)
    /\ IsSome(Get(c.web).uri) /\ Get(Get(c.web).uri) /= << >>
    /\ IsSome(Get(c.web).title) /\ Get(Get(c.web).title) /= << >>

Qualifying == SelectSeq(Citations, HasUriAndTitle)

UriOf(c) == Get(c.web).uri

TitleOf(c) == Get(c.web).title

FirstIndexOf(u) ==
    CHOOSE i \in 1..Len(Qualifying) :
        UriOf(Qualifying[i]) = u /\ \A j \in 1..(i - 1) : UriOf(Qualifying[j]) /= u

LastIndexOf(u) ==
    CHOOSE i \in 1..Len(Qualifying) :
        UriOf(Qualifying[i]) = u
            /\ \A j \in (i + 1)..Len(Qualifying) : UriOf(Qualifying[j]) /= u

\* One source per distinct URI of the qualifying citations, in first-seen order.
OnePerUriInFirstSeenOrder ==
    /\ { ReturnedSources[i].uri : i \in 1..Len(ReturnedSources) }
           = { UriOf(Qualifying[j]) : j \in 1..Len(Qualifying) }
    /\ \A i, j \in 1..Len(ReturnedSources) :
           i < j => /\ ReturnedSources[i].uri /= ReturnedSources[j].uri
                    /\ FirstIndexOf(ReturnedSources[i].uri)
                           < FirstIndexOf(ReturnedSources[j].uri)

\* C3 as written: one source per distinct URI in first-seen order, each
\* carrying the title of the first citation with that URI.
C3_FirstSeenEntries ==
    Succeeded =>
        /\ OnePerUriInFirstSeenOrder
        /\ \A i \in 1..Len(ReturnedSources) :
               ReturnedSources[i].title
                   = TitleOf(Qualifying[FirstIndexOf(ReturnedSources[i].uri)])

\* C3 as amended: one source per distinct URI in first-seen order, each
\* carrying the title of the last citation with that URI.
C3_FirstSeenOrderLastTitle ==
    Succeeded =>
        /\ OnePerUriInFirstSeenOrder
        /\ \A i \in 1..Len(ReturnedSources) :
               ReturnedSources[i].title
                   = TitleOf(Qualifying[LastIndexOf(ReturnedSources[i].uri)])

\* Three qualifying citations, the first and the last with one URI and two
\* titles, gave two sources.
C3_Witness ==
    /\ Succeeded
    /\ Len(Qualifying) = 3
    /\ UriOf(Qualifying[1]) = UriOf(Qualifying[3])
    /\ UriOf(Qualifying[1]) /= UriOf(Qualifying[2])
    /\ TitleOf(Qualifying[1]) /= TitleOf(Qualifying[3])
    /\ Len(ReturnedSources) = 2

\* C9: a source is the URI and title of a citation exposing both; every URI
\* of a citation with non-empty URI and title is among the sources; the
\* list [{uri:"a",title:"A"},{title:"B"}] gives [{uri:"a",title:"A"}]; no
\* citation list gives no sources.
C9_OnlyComplete ==
    (Settled /\ Get(aOutcome).kind = "resolve" /\ Get(aOutcome).chunksIsArray) =>
        /\ Succeeded
        /\ \A i \in 1..Len(ReturnedSources) :
               /\ IsSome(ReturnedSources[i].uri)
               /\ IsSome(ReturnedSources[i].title)
               /\ \E j \in 1..Len(Citations) :
                      /\ IsSome(Citations[j].web)
                      /\ Get(Citations[j].web).uri = ReturnedSources[i].uri
                      /\ Get(Citations[j].web).title = ReturnedSources[i].title
        /\ \A j \in 1..Len(Citations) :
               HasUriAndTitle(Citations[j]) =>
                   \E i \in 1..Len(ReturnedSources) :
                       ReturnedSources[i].uri = UriOf(Citations[j])
        /\ (Citations = << [web |-> Some([uri |-> Some(<< "a" >>), title |-> Some(<< "A" >>)])],
                           [web |-> Some([uri |-> None, title |-> Some(<< "B" >>)])] >>
               => ReturnedSources = << [uri |-> Some(<< "a" >>), title |-> Some(<< "A" >>)] >>)
        /\ (~IsSome(Get(aOutcome).groundingChunks) => ReturnedSources = << >>)

\* The example list was returned, and one source came out of its two citations.
C9_Witness ==
    /\ Succeeded
    /\ Len(Citations) = 2
    /\ HasUriAndTitle(Citations[1])
    /\ IsSome(Citations[2].web)
    /\ ~IsSome(Get(Citations[2].web).uri)
    /\ Len(ReturnedSources) = 1

\* C10: the dedup pass applied to its own output changes nothing.
C10_DedupIdempotent ==
    Succeeded => uniqueSources(ReturnedSources) = ReturnedSources

\* A list with a repeated URI between two others was deduplicated.
C10_Witness ==
    /\ Succeeded
    /\ Len(Qualifying) = 3
    /\ Len(ReturnedSources) = 2
    /\ UriOf(Qualifying[1]) /= UriOf(Qualifying[2])

\* C6: the adapter's promise never rejects; a rejected provider call or a
\* failed response handling gives {error: message}, with the Error's message
\* or the fixed fallback; a success result needs a resolved provider call.
C6_NeverThrows ==
    Settled =>
        LET c == Get(aCompletion)
            o == Get(aOutcome)
        IN  /\ c.type = "return"
            /\ (o.kind = "reject" /\ o.thrown.isError =>
                    c.value = [error |-> Some(o.thrown.message), text |-> None,
                               sources |-> None])
            /\ (o.kind = "reject" /\ ~o.thrown.isError =>
                    c.value = [error |-> Some(<< "An unknown error occurred." >>),
                               text |-> None, sources |-> None])
            /\ (o.kind = "resolve" /\ IsSome(o.groundingChunks) /\ ~o.chunksIsArray =>
                    /\ IsSome(c.value.error)
                    /\ ~IsSome(c.value.sources))
            /\ (~IsSome(c.value.error) => o.kind = "resolve")

\* The provider call rejected with a value that is no Error.
C6_Witness ==
    /\ Settled
    /\ Get(aOutcome).kind = "reject"
    /\ ~Get(aOutcome).thrown.isError
    /\ Get(aCompletion).type = "return"
    /\ IsSome(Get(aCompletion).value.error)


\* The request the adapter assembled, and its last turn.
Request == Get(aContents)

NewTurn == Request[Len(Request)]

\* C4: the new turn has role user and its parts are the text part iff the
\* new text is non-empty, then the inline-data part iff an image is given.
C4_NewTurnParts ==
    aPc /= "start" =>
        /\ NewTurn.role = "user"
        /\ NewTurn.parts =
               (IF aMessage /= << >>
                THEN << [text |-> Some(aMessage), inlineData |-> None] >>
                ELSE << >>)
               \o (IF IsSome(aImage)
                   THEN << [text |-> None,
                            inlineData |-> Some([data |-> Get(aImage).base64,
                                                 mimeType |-> Get(aImage).mimeType])] >>
                   ELSE << >>)

\* C5: n history messages give n + 1 turns; turn i has the role and the
\* parts (as many, in the same order) of message i; the last turn is the
\* new user turn, its text part before its image part.
C5_TurnOrder ==
    aPc /= "start" =>
        LET n == Len(aHistory)
        IN  /\ Len(Request) = n + 1
            /\ \A i \in 1..n :
                   /\ Request[i].role = aHistory[i].role
                   /\ Len(Request[i].parts) = Len(aHistory[i].parts)
                   /\ \A j \in 1..Len(aHistory[i].parts) :
                          LET p == aHistory[i].parts[j]
                              q == Request[i].parts[j]
                          IN  /\ (IsSome(p.text) /\ Get(p.text) /= << >>) => q.text = p.text
                              /\ (~IsSome(p.text) /\ IsSome(p.inlineData))
                                     => q.inlineData = p.inlineData
            /\ NewTurn.role = "user"
            /\ (aMessage /= << >> =>
                    \E j \in 1..Len(NewTurn.parts) : NewTurn.parts[j].text = Some(aMessage))
            /\ (IsSome(aImage) =>
                    \E j \in 1..Len(NewTurn.parts) :
                        /\ IsSome(NewTurn.parts[j].inlineData)
                        /\ Get(NewTurn.parts[j].inlineData).data = Get(aImage).base64)
            /\ \A j, k \in 1..Len(NewTurn.parts) :
                   (IsSome(NewTurn.parts[j].text) /\ IsSome(NewTurn.parts[k].inlineData))
                       => j < k

\* Two prior turns (user, then model) and a new turn with text and image.
C5_Witness ==
    /\ aPc /= "start"
    /\ Len(aHistory) = 2
    /\ aHistory[1].role = "user"
    /\ aHistory[2].role = "model"
    /\ aMessage /= << >>
    /\ IsSome(aImage)
    /\ Len(Request) = 3

\* C7: when an exchange settles with {error: e}, for every e, the store
\* appends the one model message "Sorry, something went wrong: " + e with
\* no sources, records e as the error and is idle again; the message before
\* it is the user's.
C7_ErrorReply ==
    [][(lastEvent' = "settle" /\ lastResult' /= None /\ Len(pending') < Len(pending)
            /\ IsSome(Get(lastResult').error)) =>
          LET e == Get(Get(lastResult').error)
          IN  /\ messages' = Append(messages,
                      [role |-> "model",
                       parts |-> << [text |-> Some(<< "Sorry, something went wrong: " >> \o e),
                                     inlineData |-> None] >>,
                       groundingSources |-> None])
              /\ error' = Some(e)
              /\ ~isLoading'
              /\ messages /= << >>
              /\ Last(messages).role = "user"]_vars

\* C8: a submission with text that is empty after trimming and no pending
\* image changes nothing of the chat and issues no provider call.
C8_EmptySubmitNoOp ==
    [][(lastEvent' \in {"send", "sendIgnored"} /\ Trim(input) = << >>
            /\ ~IsSome(imageToSend)) =>
          /\ lastEvent' = "sendIgnored"
          /\ UNCHANGED << messages, isLoading, error, input, imageToSend, netCalls,
                          pending >>]_vars

\* A submission of whitespace-only text without an image was ignored while idle.
C8_Witness ==
    /\ lastEvent = "sendIgnored"
    /\ ~isLoading
    /\ input /= << >>
    /\ Trim(input) = << >>
    /\ ~IsSome(imageToSend)


\* C11: the history is append-only and alternates user, model, user, ...;
\* idle, it has even length (empty or ending with a model message); awaiting
\* a response, it has odd length and ends with the user message of the
\* exchange in flight; every exchange issued has added one user message and,
\* once settled, one model message.
C11_AlternatingHistory ==
    /\ [](/\ \A i \in 1..Len(messages) :
                messages[i].role = (IF i % 2 = 1 THEN "user" ELSE "model")
          /\ (~isLoading => Len(messages) % 2 = 0)
          /\ (isLoading => /\ Len(messages) % 2 = 1
                           /\ messages[Len(messages)].role = "user")
          /\ Len(messages) + Len(pending) = 2 * netCalls)
    /\ [][/\ Len(messages') >= Len(messages)
          /\ SubSeq(messages', 1, Len(messages)) = messages
          /\ Len(messages') <= Len(messages) + 1]_vars

\* Two exchanges have settled, the first with an error reply (no sources),
\* the second with an answer and its sources.
C11_Witness ==
    /\ ~isLoading
    /\ Len(messages) = 4
    /\ ~IsSome(messages[2].groundingSources)
    /\ IsSome(messages[2].parts[1].text)
    /\ IsSome(messages[4].groundingSources)

====
